---- MODULE Spec2Model ----
(***************************************************************************)
(* A model of Pyro4's util module (src/src/Pyro4/util.py): the serializer  *)
(* base class with its compression policy, the converter registry and      *)
(* object flattening (class_to_dict), the reconstruction gate              *)
(* (dict_to_class, recreate_classes) and the concrete serializers.         *)
(*                                                                         *)
(* Conventions.  A Python str is a sequence of tokens: a token is a word   *)
(* without '.' or '_', or one of the characters "." and "_", so that       *)
(* substring, prefix and split are computed on the text and not looked up. *)
(* Every Python value is a record [t |-> type, v |-> payload].  A raised   *)
(* exception is the record [t |-> "raise", v |-> name of the error type].  *)
(* The interpreter modelled is CPython 3.7 .. 3.10: dicts iterate in       *)
(* insertion order, the name `exceptions` (line 120) is not bound, and     *)
(* object has no default __getstate__.                                     *)
(***************************************************************************)
EXTENDS Integers, Sequences, FiniteSets, TLC

VARIABLES
    registry,     \* SerializerBase.__custom_class_to_dict_registry (line 130)
    serializers,  \* the module-level table of codec instances (line 379)
    op,           \* the last call made and its arguments
    out,          \* what that call returned or raised
    regorder,     \* the (type, converter) pairs registered now, oldest registration first
    reader,       \* a class_to_dict call in progress in another thread
    gate0,        \* the outcome of dict_to_class for each input before any registration
    called,       \* the mappings dict_to_class was called with during the last call, in order
    argout        \* the argument of the last call as the call left it (objects are passed by reference)

vars == <<registry, serializers, op, out, regorder, reader, gate0, called, argout>>

----------------------------------------------------------------------------
(* Python values *)

None == [t |-> "none", v |-> <<>>]

PyInt(n) == [t |-> "int", v |-> n]

PyStr(s) == [t |-> "str", v |-> s]

PyTuple(s) == [t |-> "tuple", v |-> s]

PyList(s) == [t |-> "list", v |-> s]

PyDict(f) == [t |-> "dict", v |-> f]

Raise(e) == [t |-> "raise", v |-> e]

IsRaise(r) == r.t = "raise"

EmptyMap == [k \in {} |-> None]

----------------------------------------------------------------------------
(* str operations *)

\* `sub in s`
Contains(s, sub) ==
    \E i \in 1..(Len(s) - Len(sub) + 1) : SubSeq(s, i, i + Len(sub) - 1) = sub

\* s.startswith(p)
StartsWith(s, p) == Len(s) >= Len(p) /\ SubSeq(s, 1, Len(p)) = p

RECURSIVE Split(_, _, _)
\* s.split(sep, maxsplit)
Split(s, sep, maxsplit) ==
    IF maxsplit = 0 \/ ~(\E i \in 1..Len(s) : s[i] = sep)
    THEN <<s>>
    ELSE LET i == CHOOSE i \in 1..Len(s) :
                      s[i] = sep /\ \A j \in 1..(i - 1) : s[j] # sep
         IN <<SubSeq(s, 1, i - 1)>> \o Split(SubSeq(s, i + 1, Len(s)), sep, maxsplit - 1)

DUNDER == <<"_", "_">>

CLASS_KEY == "__class__"

----------------------------------------------------------------------------
(* The namespaces dict_to_class looks names up in *)

\* vars(builtins): what each name is bound to
builtins ==
    [n \in {"ValueError", "KeyError", "Exception", "KeyboardInterrupt", "int", "len"} |->
        CASE n \in {"ValueError", "KeyError", "Exception"} -> "exception"
          [] n \in {"KeyboardInterrupt", "int"} -> "class"
          [] OTHER -> "function"]

\* vars(Pyro4.errors): the framework's error hierarchy, all PyroError subclasses
errors ==
    [n \in {"PyroError", "CommunicationError", "ProtocolError", "SecurityError"} |->
        "pyroerror"]

\* all_exceptions (lines 119-125): bare class name -> exception type
all_exceptions ==
    {n \in DOMAIN builtins : builtins[n] = "exception"} \cup
    {n \in DOMAIN errors : errors[n] = "pyroerror"}

\* getattr(namespace, name): the binding, or "AttributeError"
GetAttr(ns, name) ==
    IF Len(name) = 1 /\ name[1] \in DOMAIN ns THEN ns[name[1]] ELSE "AttributeError"

\* type(serializer).__name__ for the entries of `serializers`
SerializerClass ==
    [k \in {"pickle", "marshal", "json", "serpent"} |->
        CASE k = "pickle" -> "PickleSerializer"
          [] k = "marshal" -> "MarshalSerializer"
          [] k = "json" -> "JsonSerializer"
          [] k = "serpent" -> "SerpentSerializer"]

\* An instance: its class, module, __dict__, constructor args, and identity
\* ("new": a newly created instance; otherwise the name of the one it is).
Obj(module, cls, attrs, args, id) ==
    [t |-> "obj",
     v |-> [module |-> module, cls |-> cls, attrs |-> attrs, args |-> args, id |-> id]]

----------------------------------------------------------------------------
(* The reconstruction gate *)

PFX_CORE == <<"Pyro4", ".", "core", ".">>

PFX_UTIL == <<"Pyro4", ".", "util", ".">>

PFX_ERRORS == <<"Pyro4", ".", "errors", ".">>

PFX_BUILTINS == <<"builtins", ".">>

PFX_EXCEPTIONS == <<"exceptions", ".">>

MOD_CORE == <<"Pyro4", ".", "core">>

MOD_UTIL == <<"Pyro4", ".", "util">>

MOD_ERRORS == <<"Pyro4", ".", "errors">>

MOD_BUILTINS == <<"builtins">>

\* data[key] for a key the gate requires: the value, or KeyError
Item(data, key) == IF key \in DOMAIN data THEN data[key] ELSE Raise("KeyError")

MakeExceptionWithoutArgs(module, cls, data) == Obj(module, cls, EmptyMap, <<>>, "new")

\* exceptiontype(*data["args"]): an instance built from the stored args only
MakeException(module, cls, data) ==
    LET args == Item(data, "args")
    IN IF IsRaise(args) THEN args
       ELSE IF args.t \notin {"tuple", "list"} THEN Raise("TypeError")
       ELSE Obj(module, cls, EmptyMap, args.v, "new")

SerializerOrRegisteredType(classname) ==
    IF \E k \in serializers : <<SerializerClass[k]>> = classname
    THEN LET k == CHOOSE k \in serializers : <<SerializerClass[k]>> = classname
         IN Obj(MOD_UTIL, SerializerClass[k], EmptyMap, <<>>, k)
    ELSE IF \E i \in 1..Len(registry) : <<"mymod", ".", registry[i].key>> = classname
    THEN Obj(<<"mymod">>, classname[3], EmptyMap, <<>>, "new")
    ELSE Raise("ProtocolError")

\* lines 270-274: the instance registered under that class name, or ProtocolError
SerializerByName(classname) ==
    IF \E k \in serializers : <<SerializerClass[k]>> = classname
    THEN LET k == CHOOSE k \in serializers : <<SerializerClass[k]>> = classname
         IN Obj(MOD_UTIL, SerializerClass[k], EmptyMap, <<>>, k)
    ELSE Raise("ProtocolError")

\* lines 230-244
CoreClass(classname, data) ==
    IF classname = PFX_CORE \o <<"URI">>
    THEN LET state == Item(data, "state")
         IN IF IsRaise(state) THEN state
            ELSE Obj(MOD_CORE, "URI", "state" :> state, <<>>, "new")
    ELSE IF classname = PFX_CORE \o <<"Proxy">>
    THEN LET state == Item(data, "state")
         IN IF IsRaise(state) THEN state
            ELSE IF state.t \notin {"tuple", "list"} THEN Raise("TypeError")
            ELSE IF Len(state.v) < 3 THEN Raise("IndexError")
            ELSE Obj(MOD_CORE, "Proxy",
                     ("uri" :> state.v[1]) @@ ("oneway" :> state.v[2]) @@
                     ("timeout" :> state.v[3]), <<>>, "new")
    ELSE IF classname = PFX_CORE \o <<"Daemon">>
    THEN Obj(MOD_CORE, "Daemon", EmptyMap, <<>>, "new")
    ELSE SerializerByName(classname)

UtilClassFromRegistry(classname) == SerializerByName(<<classname[Len(classname)]>>)

\* lines 245-255
UtilClass(classname) ==
    IF classname \in {PFX_UTIL \o <<"PickleSerializer">>, PFX_UTIL \o <<"MarshalSerializer">>,
                      PFX_UTIL \o <<"JsonSerializer">>, PFX_UTIL \o <<"SerpentSerializer">>}
    THEN Obj(MOD_UTIL, classname[Len(classname)], EmptyMap, <<>>, "new")
    ELSE IF classname = PFX_UTIL \o <<"XmlrpcSerializer">>
    THEN Raise("NameError")   \* the module defines no XmlrpcSerializer
    ELSE SerializerByName(classname)

\* lines 256-259
ErrorsClass(classname, data) ==
    LET name == Split(classname, ".", 2)[3]
        errortype == GetAttr(errors, name)
    IN IF errortype = "AttributeError" THEN Raise("AttributeError")
       ELSE IF errortype = "pyroerror" THEN MakeException(MOD_ERRORS, name[1], data)
       ELSE SerializerByName(classname)

\* lines 260-263
BuiltinsClass(classname, data) ==
    LET name == Split(classname, ".", 1)[2]
        exceptiontype == GetAttr(builtins, name)
    IN IF exceptiontype = "AttributeError" THEN Raise("AttributeError")
       ELSE IF exceptiontype = "function" THEN Raise("TypeError")  \* issubclass() arg 1 must be a class
       ELSE IF exceptiontype = "exception" THEN MakeException(MOD_BUILTINS, name[1], data)
       ELSE SerializerByName(classname)

\* lines 268-269
BareException(classname, data) ==
    MakeException(IF classname[1] \in DOMAIN errors THEN MOD_ERRORS ELSE MOD_BUILTINS,
                  classname[1], data)

ALLOWED_PREFIXES == {PFX_CORE, PFX_UTIL, PFX_ERRORS, PFX_BUILTINS, PFX_EXCEPTIONS}

HasDunderOutsidePrefixes(classname) ==
    /\ Contains(classname, DUNDER)
    /\ ~(\E p \in ALLOWED_PREFIXES : StartsWith(classname, p))

\* line 228: "__" in classname
HasDunder(classname) == Contains(classname, DUNDER)

dict_to_class(data) ==
    LET classname == IF CLASS_KEY \in DOMAIN data THEN data[CLASS_KEY].v ELSE <<"<unknown>">>
    IN IF HasDunder(classname) THEN Raise("SecurityError")
       ELSE IF StartsWith(classname, PFX_CORE) THEN CoreClass(classname, data)
       ELSE IF StartsWith(classname, PFX_UTIL) THEN UtilClass(classname)
       ELSE IF StartsWith(classname, PFX_ERRORS) THEN ErrorsClass(classname, data)
       ELSE IF StartsWith(classname, PFX_BUILTINS) THEN BuiltinsClass(classname, data)
       ELSE IF StartsWith(classname, PFX_EXCEPTIONS) THEN Raise("NameError")  \* `exceptions` is not bound
       ELSE IF Len(classname) = 1 /\ classname[1] \in all_exceptions
       THEN BareException(classname, data)
       ELSE SerializerByName(classname)

----------------------------------------------------------------------------
(* Application classes and instances used as inputs *)

MOD_APP == <<"mymod">>

MOD_MAIN == <<"_", "_", "main", "_", "_">>

\* For each class: its module, its method resolution order (what isinstance
\* tests), what obj.__getstate__() gives ("absent": AttributeError), whether
\* instances have a __dict__, and its __slots__ (<<>>: none declared).
ClassTable ==
    LET C(module, mro, getstate, hasdict, slots) ==
            [module |-> module, mro |-> mro, getstate |-> getstate,
             hasdict |-> hasdict, slots |-> slots]
    IN  ("object" :> C(MOD_BUILTINS, {"object"}, "absent", FALSE, <<>>)) @@
        ("Point" :> C(MOD_APP, {"Point", "object"}, "absent", TRUE, <<>>)) @@
        ("Point3D" :> C(MOD_APP, {"Point3D", "Point", "object"}, "absent", TRUE, <<>>)) @@
        ("MainThing" :> C(MOD_MAIN, {"MainThing", "object"}, "absent", TRUE, <<>>)) @@
        ("Slotted" :> C(MOD_APP, {"Slotted", "object"}, "absent", FALSE, <<"a", "b">>)) @@
        ("Stateful" :> C(MOD_APP, {"Stateful", "object"}, "dict", TRUE, <<>>)) @@
        ("OddState" :> C(MOD_APP, {"OddState", "object"}, "other", TRUE, <<>>)) @@
        ("Exception" :> C(MOD_BUILTINS, {"Exception", "object"}, "absent", TRUE, <<>>)) @@
        ("ValueError" :> C(MOD_BUILTINS, {"ValueError", "Exception", "object"},
                           "absent", TRUE, <<>>)) @@
        ("CommunicationError" :> C(MOD_ERRORS, {"CommunicationError", "PyroError",
                                                "Exception", "object"}, "absent", TRUE, <<>>)) @@
        ("MyError" :> C(MOD_APP, {"MyError", "Exception", "object"}, "absent", TRUE, <<>>)) @@
        ("StatefulError" :> C(MOD_APP, {"StatefulError", "Exception", "object"},
                              "dict", TRUE, <<>>))

\* isinstance(obj, clazz)
IsInstance(obj, clazz) == clazz \in ClassTable[obj.v.cls].mro

\* type(obj).__module__ + "." + type(obj).__name__
QualifiedName(obj) == ClassTable[obj.v.cls].module \o <<".">> \o <<obj.v.cls>>

XY == ("x" :> PyInt(1)) @@ ("y" :> PyInt(2))

Instances ==
    { Obj(MOD_BUILTINS, "object", EmptyMap, <<>>, "o1"),
      Obj(MOD_APP, "Point", XY, <<>>, "o2"),
      Obj(MOD_APP, "Point3D", XY @@ ("z" :> PyInt(3)), <<>>, "o3"),
      Obj(MOD_APP, "Point", XY @@ ("_pyroDaemon" :> PyStr(<<"daemon">>)), <<>>, "o4"),
      Obj(MOD_MAIN, "MainThing", XY, <<>>, "o5"),
      Obj(MOD_APP, "Slotted", ("a" :> PyInt(1)) @@ ("b" :> PyInt(2)), <<>>, "o6"),
      Obj(MOD_APP, "Stateful", XY, <<>>, "o7"),
      Obj(MOD_APP, "OddState", XY, <<>>, "o8"),
      Obj(MOD_BUILTINS, "ValueError", EmptyMap, <<>>, "e1"),
      Obj(MOD_BUILTINS, "ValueError", EmptyMap, <<PyInt(1), PyStr(<<"bad">>)>>, "e2"),
      Obj(MOD_ERRORS, "CommunicationError", EmptyMap, <<PyStr(<<"lost">>)>>, "e3"),
      Obj(MOD_APP, "MyError", "detail" :> PyInt(7), <<PyInt(1)>>, "e4"),
      Obj(MOD_APP, "StatefulError", XY, <<PyInt(1)>>, "e5") }

IsException(obj) == IsInstance(obj, "Exception")

----------------------------------------------------------------------------
(* The converter registry: a CPython dict, kept as its entries array.  A    *)
(* deleted entry leaves a dummy in place; an insertion into a full array    *)
(* first drops the dummies (the resize), then appends.                      *)

Slots == 2

DUMMY == [key |-> "<dummy>", val |-> "<dummy>"]

Converters == {"convA", "convB"}

RegistryKeys == {"Point", "Point3D", "Exception"}

Live(entries) == SelectSeq(entries, LAMBDA e : e # DUMMY)

Keys(entries) == {entries[i].key : i \in 1..Len(entries)} \ {DUMMY.key}

IndexOf(entries, clazz) == CHOOSE i \in 1..Len(entries) : entries[i].key = clazz

\* registry[clazz] = converter
DictSetItem(entries, clazz, converter) ==
    IF clazz \in Keys(entries)
    THEN [entries EXCEPT ![IndexOf(entries, clazz)].val = converter]
    ELSE IF Len(entries) >= Slots
    THEN Append(Live(entries), [key |-> clazz, val |-> converter])
    ELSE Append(entries, [key |-> clazz, val |-> converter])

\* del registry[clazz]
DictDelItem(entries, clazz) == [entries EXCEPT ![IndexOf(entries, clazz)] = DUMMY]

register_class_to_dict(entries, clazz, converter) == DictSetItem(entries, clazz, converter)

unregister_class_to_dict(entries, clazz) ==
    IF clazz \in Keys(entries) THEN DictDelItem(entries, clazz) ELSE entries

\* Calling a registered converter on obj: what the converter returns.  The
\* converters used here name themselves and tag the mapping with obj's type.
CallConverter(converter, obj) ==
    PyDict((CLASS_KEY :> PyStr(QualifiedName(obj))) @@ ("by" :> PyStr(<<converter>>)))

----------------------------------------------------------------------------
(* Object flattening *)

MostDerivedMatch(entries, obj) ==
    LET hits == {i \in 1..Len(entries) : entries[i] # DUMMY /\ IsInstance(obj, entries[i].key)}
        depth(i) == Cardinality(ClassTable[entries[i].key].mro)
    IN IF hits = {} THEN 0
       ELSE CHOOSE i \in hits : \A j \in hits : depth(i) > depth(j) \/ (depth(i) = depth(j) /\ i <= j)

\* lines 189-191: the entry the scan stops at (0: none matches)
FirstMatch(entries, obj) ==
    LET hits == {i \in 1..Len(entries) : entries[i] # DUMMY /\ IsInstance(obj, entries[i].key)}
    IN IF hits = {} THEN 0 ELSE CHOOSE i \in hits : \A j \in hits : i <= j

\* lines 192-193: the instance after class_to_dict has run on it
ClearDaemon(obj) ==
    IF "_pyroDaemon" \in DOMAIN obj.v.attrs
    THEN [obj EXCEPT !.v.attrs["_pyroDaemon"] = None]
    ELSE obj

\* obj.__getstate__() of the classes that define one
GetState(obj) ==
    IF ClassTable[obj.v.cls].getstate = "dict"
    THEN PyDict(obj.v.attrs @@ ("exported" :> PyInt(1)))
    ELSE PyTuple(<<PyInt(1)>>)

FromVarsOrSlotsOrEmpty(obj) ==
    LET c == ClassTable[obj.v.cls]
        tag == CLASS_KEY :> PyStr(QualifiedName(obj))
    IN IF c.hasdict THEN PyDict(tag @@ obj.v.attrs)
       ELSE PyDict(tag @@ [s \in {c.slots[i] : i \in 1..Len(c.slots)} |-> obj.v.attrs[s]])

\* lines 206-219: vars(obj), else __slots__, else the error
FromVarsOrSlots(obj) ==
    LET c == ClassTable[obj.v.cls]
        tag == CLASS_KEY :> PyStr(QualifiedName(obj))
    IN IF c.hasdict THEN PyDict(tag @@ obj.v.attrs)
       ELSE IF c.slots # <<>>
       THEN PyDict(tag @@ [s \in {c.slots[i] : i \in 1..Len(c.slots)} |-> obj.v.attrs[s]])
       ELSE Raise("ProtocolError")

GetStateBeforeException(obj) ==
    LET o == ClearDaemon(obj)
    IN IF ClassTable[o.v.cls].getstate # "absent" /\ GetState(o).t = "dict"
       THEN GetState(o)
       ELSE IF IsException(o)
       THEN PyDict(("args" :> PyTuple(o.v.args)) @@ (CLASS_KEY :> PyStr(QualifiedName(o))))
       ELSE FromVarsOrSlots(o)

\* lines 192-219: flattening when no registered converter matches
GenericToDict(obj) ==
    LET o == ClearDaemon(obj)
    IN IF IsException(o)
       THEN PyDict(("args" :> PyTuple(o.v.args)) @@ (CLASS_KEY :> PyStr(QualifiedName(o))))
       ELSE IF ClassTable[o.v.cls].getstate # "absent" /\ GetState(o).t = "dict"
       THEN GetState(o)
       ELSE FromVarsOrSlots(o)

\* class_to_dict run against one registry, start to end
ClassToDictOn(entries, obj) ==
    LET i == FirstMatch(entries, obj)
    IN IF i # 0 THEN CallConverter(entries[i].val, obj) ELSE GenericToDict(obj)

class_to_dict(obj) == ClassToDictOn(registry, obj)

ClearDaemonBeforeScan(obj) == ClearDaemon(obj)

\* the argument as class_to_dict leaves it
class_to_dict_arg(obj) == IF FirstMatch(registry, obj) # 0 THEN obj ELSE ClearDaemon(obj)

ReturnLiteral(literal) == literal

RECURSIVE RecreateNested(_)
RecreateNested(literal) ==
    CASE literal.t = "dict" /\ CLASS_KEY \in DOMAIN literal.v -> dict_to_class(literal.v)
      [] literal.t \in {"tuple", "list"} ->
            LET items == [i \in 1..Len(literal.v) |-> RecreateNested(literal.v[i])]
            IN IF \E i \in 1..Len(items) : IsRaise(items[i])
               THEN items[CHOOSE i \in 1..Len(items) : IsRaise(items[i])]
               ELSE [literal EXCEPT !.v = items]
      [] literal.t = "dict" ->
            LET items == [k \in DOMAIN literal.v |-> RecreateNested(literal.v[k])]
            IN IF \E k \in DOMAIN items : IsRaise(items[k])
               THEN items[CHOOSE k \in DOMAIN items : IsRaise(items[k])]
               ELSE [literal EXCEPT !.v = items]
      [] OTHER -> literal

RecreateCallsAnyMapping(literal) ==
    IF literal.t \in {"dict", "odict"} /\ CLASS_KEY \in DOMAIN literal.v
    THEN <<literal.v>>
    ELSE <<>>

\* lines 277-279: the dict_to_class calls recreate_classes makes; type(literal)
\* is "dict" for a plain dict only, "odict" for an instance of a dict subclass
RecreateCalls(literal) ==
    IF literal.t = "dict" /\ CLASS_KEY \in DOMAIN literal.v
    THEN <<literal.v>>
    ELSE <<>>

\* lines 276-280
recreate_classes(literal) ==
    IF literal.t = "dict" /\ CLASS_KEY \in DOMAIN literal.v
    THEN dict_to_class(literal.v)
    ELSE literal

----------------------------------------------------------------------------
(* Encoded data.  A bytes object is kept as what it encodes: the format,   *)
(* the value a decoder of that format reads from it, whether it is a zlib  *)
(* stream, and its length.  A str of n equal characters is the value       *)
(* [t |-> "blob", v |-> [kind |-> "stars", n |-> n]]; kind "noise" is a    *)
(* str of n characters that deflate cannot shorten.                        *)

PyBool(b) == [t |-> "bool", v |-> b]

Blob(kind, n) == [t |-> "blob", v |-> [kind |-> kind, n |-> n]]

Bytes(z, fmt, val, len) ==
    [t |-> "bytes", v |-> [z |-> z, fmt |-> fmt, val |-> val, len |-> len]]

Codecs == {"pickle", "marshal", "json", "serpent"}

RECURSIVE Size(_, _), SizeSeq(_, _), SizeMap(_, _)
\* The number of bytes a value takes in an encoding (deflated: in the deflate
\* stream of that encoding).
Size(v, deflated) ==
    CASE v.t \in {"none", "bool"} -> 1
      [] v.t = "int" -> 5
      [] v.t = "str" -> 5 + Len(v.v)
      [] v.t = "blob" -> IF deflated /\ v.v.kind = "stars"
                         THEN 8 + (v.v.n \div 258)
                         ELSE 5 + v.v.n
      [] v.t \in {"tuple", "list"} -> 5 + SizeSeq(v.v, deflated)
      [] v.t = "dict" -> 5 + SizeMap(v.v, deflated)
      [] v.t = "obj" -> 20 + SizeMap(v.v.attrs, deflated) + SizeSeq(v.v.args, deflated)

SizeSeq(s, deflated) ==
    IF Len(s) = 0 THEN 0 ELSE Size(Head(s), deflated) + SizeSeq(Tail(s), deflated)

SizeMap(f, deflated) ==
    IF DOMAIN f = {} THEN 0
    ELSE LET k == CHOOSE k \in DOMAIN f : TRUE
         IN 6 + Size(f[k], deflated) + SizeMap([x \in DOMAIN f \ {k} |-> f[x]], deflated)

\* the bytes each format adds around the value
Framing == [c \in Codecs |-> CASE c = "pickle" -> 3 [] c = "serpent" -> 26 [] OTHER -> 0]

EncodedLen(fmt, val) == Framing[fmt] + Size(val, FALSE)

\* len(zlib.compress(data)): 2 bytes of header, 5 of block header, 4 of checksum
DeflatedLen(fmt, val) == 11 + Framing[fmt] + Size(val, TRUE)

\* zlib.compress(data)
zlib_compress(data) ==
    Bytes(TRUE, data.v.fmt, data.v.val, DeflatedLen(data.v.fmt, data.v.val))

\* zlib.decompress(data)
zlib_decompress(data) ==
    IF data.v.z
    THEN Bytes(FALSE, data.v.fmt, data.v.val, EncodedLen(data.v.fmt, data.v.val))
    ELSE Raise("zlib.error")

RECURSIVE IsLiteral(_)
\* values made of None, bool, int, str, tuple, list and dict only
IsLiteral(v) ==
    CASE v.t \in {"none", "bool", "int", "str", "blob"} -> TRUE
      [] v.t \in {"tuple", "list"} -> \A i \in 1..Len(v.v) : IsLiteral(v.v[i])
      [] v.t = "dict" -> \A k \in DOMAIN v.v : IsLiteral(v.v[k])
      [] OTHER -> FALSE

RECURSIVE JsonValue(_)
\* what json.loads reads back from json.dumps(v): a tuple comes back as a list
JsonValue(v) ==
    CASE v.t \in {"tuple", "list"} -> PyList([i \in 1..Len(v.v) |-> JsonValue(v.v[i])])
      [] v.t = "dict" -> PyDict([k \in DOMAIN v.v |-> JsonValue(v.v[k])])
      [] OTHER -> v

\* pickle.dumps / marshal.dumps / json.dumps / serpent.dumps of a value: the
\* bytes, or the error the encoder raises for a value it cannot represent
\* (serpent flattens instances with its own library code, which is not part of
\* this module: it is given literals only.)
Encode(fmt, v) ==
    CASE fmt = "pickle" -> Bytes(FALSE, fmt, v, EncodedLen(fmt, v))
      [] fmt = "marshal" -> IF IsLiteral(v) THEN Bytes(FALSE, fmt, v, EncodedLen(fmt, v))
                            ELSE Raise("ValueError")
      [] fmt = "json" -> IF IsLiteral(v)
                         THEN Bytes(FALSE, fmt, JsonValue(v), EncodedLen(fmt, v))
                         ELSE Raise("TypeError")
      [] fmt = "serpent" -> IF IsLiteral(v) THEN Bytes(FALSE, fmt, v, EncodedLen(fmt, v))
                            ELSE Raise("TypeError")

\* pickle.loads / marshal.loads / json.loads / serpent.loads: the value, or the
\* decoder's error for bytes that are not in its format
Decode(fmt, data) ==
    IF data.v.z \/ data.v.fmt # fmt THEN Raise("DecodeError") ELSE data.v.val

\* class_to_dict as the codecs call it, on any value: only an instance can
\* match a registered type, export state, or have attributes or slots
ToDict(v) == IF v.t = "obj" THEN class_to_dict(v) ELSE Raise("ProtocolError")

----------------------------------------------------------------------------
(* The serializers *)

\* lines 299-300, 314-318, 332-333, 363-368
dumps(codec, data) ==
    IF codec \in {"pickle", "serpent"} THEN Encode(codec, data)
    ELSE LET first == Encode(codec, data)
         IN IF ~IsRaise(first) THEN first
            ELSE LET value == ToDict(data)
                 IN IF IsRaise(value) THEN value ELSE Encode(codec, value)

\* lines 305-306, 323-324, 338-339, 373-375
loads(codec, data) ==
    LET value == Decode(codec, data)
    IN IF IsRaise(value) THEN value
       ELSE IF codec = "pickle" THEN value
       ELSE recreate_classes(value)

\* the dict_to_class calls made by loads
loads_calls(codec, data) ==
    LET value == Decode(codec, data)
    IN IF IsRaise(value) \/ codec = "pickle" THEN <<>> ELSE RecreateCalls(value)

\* the value handed to dumps as dumps leaves it: class_to_dict runs on it when
\* the encoder refuses it (lines 317-318, 366-367)
dumps_arg(codec, data) ==
    IF codec \in {"marshal", "json"} /\ IsRaise(Encode(codec, data)) /\ data.t = "obj"
    THEN class_to_dict_arg(data)
    ELSE data

\* lines 296-297, 311-312, 329-330, 359-362
dumpsCall(codec, obj, method, vargs, kwargs) ==
    IF codec = "json"
    THEN Encode(codec, PyDict(("object" :> obj) @@ ("method" :> method) @@
                              ("params" :> vargs) @@ ("kwargs" :> kwargs)))
    ELSE Encode(codec, PyTuple(<<obj, method, vargs, kwargs>>))

\* lines 302-303, 320-321, 335-336, 369-372
loadsCall(codec, data) ==
    LET value == Decode(codec, data)
    IN IF IsRaise(value) THEN value
       ELSE IF codec # "json" THEN value
       ELSE IF value.t # "dict" THEN Raise("TypeError")
       ELSE IF ~({"object", "method", "params", "kwargs"} \subseteq DOMAIN value.v)
       THEN Raise("KeyError")
       ELSE PyTuple(<<value.v["object"], value.v["method"],
                      value.v["params"], value.v["kwargs"]>>)

COMPRESS_THRESHOLD == 200

CompressUnlessLonger(data, compress) ==
    IF ~compress \/ data.v.len < COMPRESS_THRESHOLD
    THEN PyTuple(<<data, PyBool(FALSE)>>)
    ELSE LET compressed == zlib_compress(data)
         IN IF compressed.v.len <= data.v.len
            THEN PyTuple(<<compressed, PyBool(TRUE)>>)
            ELSE PyTuple(<<data, PyBool(FALSE)>>)

\* lines 169-175
compressdata(data, compress) ==
    IF ~compress \/ data.v.len < COMPRESS_THRESHOLD
    THEN PyTuple(<<data, PyBool(FALSE)>>)
    ELSE LET compressed == zlib_compress(data)
         IN IF compressed.v.len < data.v.len
            THEN PyTuple(<<compressed, PyBool(TRUE)>>)
            ELSE PyTuple(<<data, PyBool(FALSE)>>)

\* lines 132-136
serializeData(codec, data, compress) ==
    LET encoded == dumps(codec, data)
    IN IF IsRaise(encoded) THEN encoded ELSE compressdata(encoded, compress)

DeserializeWithoutDecompress(codec, data, compressed) == loads(codec, data)

\* lines 138-142
deserializeData(codec, data, compressed) ==
    IF compressed
    THEN LET plain == zlib_decompress(data)
         IN IF IsRaise(plain) THEN plain ELSE loads(codec, plain)
    ELSE loads(codec, data)

\* lines 144-148
serializeCall(codec, obj, method, vargs, kwargs, compress) ==
    LET encoded == dumpsCall(codec, obj, method, vargs, kwargs)
    IN IF IsRaise(encoded) THEN encoded ELSE compressdata(encoded, compress)

\* lines 150-155
deserializeCall(codec, data, compressed) ==
    IF compressed
    THEN LET plain == zlib_decompress(data)
         IN IF IsRaise(plain) THEN plain ELSE loadsCall(codec, plain)
    ELSE loadsCall(codec, data)

----------------------------------------------------------------------------
(* Inputs *)

Dotted2(a, b) == <<a, ".", b>>

Dotted3(a, b, c) == <<a, ".", b, ".", c>>

\* type tags that arrive in attribute mappings
Tags ==
    { <<"foo", "_", "_", "bar">>,
      MOD_MAIN \o <<".", "Point">>,
      PFX_CORE \o <<"_", "_", "new", "_", "_">>,
      PFX_BUILTINS \o <<"_", "_", "import", "_", "_">>,
      Dotted3("Pyro4", "core", "URI"), Dotted3("Pyro4", "core", "Proxy"),
      Dotted3("Pyro4", "core", "Daemon"), Dotted3("Pyro4", "core", "Nothing"),
      Dotted3("Pyro4", "util", "MarshalSerializer"), Dotted3("Pyro4", "util", "SerpentSerializer"),
      Dotted3("Pyro4", "util", "XmlrpcSerializer"), Dotted3("Pyro4", "util", "Nothing"),
      Dotted3("Pyro4", "errors", "CommunicationError"), Dotted3("Pyro4", "errors", "Nothing"),
      Dotted2("builtins", "ValueError"), Dotted2("builtins", "KeyboardInterrupt"),
      Dotted2("builtins", "int"), Dotted2("builtins", "len"), Dotted2("builtins", "nothing"),
      Dotted2("exceptions", "ValueError"),
      <<"ValueError">>, <<"CommunicationError">>, <<"MarshalSerializer">>,
      <<"JsonSerializer">>, <<"SerpentSerializer">>, <<"a", "_", "b">>,
      Dotted2("mymod", "Point"), Dotted3("completely", "unknown", "Type") }

\* the tags also sent with constructor args
ArgsTags ==
    { PFX_BUILTINS \o <<"_", "_", "import", "_", "_">>, Dotted2("builtins", "ValueError"),
      Dotted2("builtins", "int"), Dotted3("Pyro4", "errors", "CommunicationError"),
      <<"ValueError">>, Dotted2("mymod", "Point") }

\* the tags also sent with a state
StateTags ==
    { PFX_CORE \o <<"_", "_", "new", "_", "_">>, Dotted3("Pyro4", "core", "URI"),
      Dotted3("Pyro4", "core", "Proxy") }

ARGS_ITEM == "args" :> PyTuple(<<PyInt(1), PyStr(<<"bad">>)>>)

STATE_ITEM == "state" :> PyTuple(<<PyStr(<<"PYRO:obj@host:1">>), PyList(<<>>), None>>)

Tagged(tag, extra) == (CLASS_KEY :> PyStr(tag)) @@ extra

\* the attribute mappings handed to dict_to_class: every tag alone, and the
\* tags of exceptions and of core types with constructor args or state
GateInputs ==
    {Tagged(tag, EmptyMap) : tag \in Tags} \cup
    {Tagged(tag, ARGS_ITEM) : tag \in ArgsTags} \cup
    {Tagged(tag, STATE_ITEM) : tag \in StateTags} \cup
    {"number" :> PyInt(42)}

RECURSIVE SeqOf(_)
SeqOf(S) == IF S = {} THEN <<>> ELSE LET x == CHOOSE x \in S : TRUE IN <<x>> \o SeqOf(S \ {x})

\* the same mappings, numbered
GateInputSeq == SeqOf(GateInputs)

Idle ==
    [pc |-> "idle", obj |-> None, pos |-> 0, used |-> 0, clazz |-> "", cands |-> {},
     result |-> None]

Op(name, codec, arg, flag) == [name |-> name, codec |-> codec, arg |-> arg, flag |-> flag]

----------------------------------------------------------------------------
(* The state machine: one action per call *)

Init ==
    /\ registry = <<>>
    /\ serializers \in {{"pickle", "marshal"} \cup s : s \in SUBSET {"json", "serpent"}}
    /\ op = Op("init", "", None, FALSE)
    /\ out = None
    /\ regorder = <<>>
    /\ reader = Idle
    /\ gate0 = [i \in 1..Len(GateInputSeq) |-> dict_to_class(GateInputSeq[i])]
    /\ called = <<>>
    /\ argout = None

\* a lookup in progress could have run against the registry as it is now
Observe(r) ==
    IF r.pc \in {"iter", "fetch"}
    THEN [r EXCEPT !.cands = @ \cup {ClassToDictOn(registry', r.obj)}]
    ELSE r

Register(clazz, converter) ==
    /\ registry' = register_class_to_dict(registry, clazz, converter)
    /\ regorder' =
          IF \E i \in 1..Len(regorder) : regorder[i][1] = clazz
          THEN [i \in 1..Len(regorder) |->
                  IF regorder[i][1] = clazz THEN <<clazz, converter>> ELSE regorder[i]]
          ELSE Append(regorder, <<clazz, converter>>)
    /\ op' = Op("register_class_to_dict", "", PyTuple(<<PyStr(<<clazz>>), PyStr(<<converter>>)>>), FALSE)
    /\ out' = None
    /\ reader' = Observe(reader)
    /\ called' = <<>>
    /\ argout' = op'.arg
    /\ UNCHANGED <<serializers, gate0>>

Unregister(clazz) ==
    /\ registry' = unregister_class_to_dict(registry, clazz)
    /\ regorder' = SelectSeq(regorder, LAMBDA e : e[1] # clazz)
    /\ op' = Op("unregister_class_to_dict", "", PyStr(<<clazz>>), FALSE)
    /\ out' = None
    /\ reader' = Observe(reader)
    /\ called' = <<>>
    /\ argout' = op'.arg
    /\ UNCHANGED <<serializers, gate0>>

ClassToDict(obj) ==
    /\ op' = Op("class_to_dict", "", obj, FALSE)
    /\ out' = class_to_dict(obj)
    /\ called' = <<>>
    /\ argout' = class_to_dict_arg(obj)
    /\ UNCHANGED <<registry, serializers, regorder, reader, gate0>>

DictToClass(data) ==
    /\ op' = Op("dict_to_class", "", PyDict(data), FALSE)
    /\ out' = dict_to_class(data)
    /\ called' = <<data>>
    /\ argout' = op'.arg
    /\ UNCHANGED <<registry, serializers, regorder, reader, gate0>>

\* dict_to_class on the mapping the preceding class_to_dict call returned
Rebuild ==
    /\ op.name = "class_to_dict"
    /\ out.t = "dict"
    /\ op' = Op("rebuild", "", op.arg, FALSE)
    /\ out' = dict_to_class(out.v)
    /\ called' = <<out.v>>
    /\ argout' = op'.arg
    /\ UNCHANGED <<registry, serializers, regorder, reader, gate0>>

Next ==
    \/ \E clazz \in RegistryKeys, converter \in Converters : Register(clazz, converter)
    \/ \E clazz \in RegistryKeys : Unregister(clazz)
    \/ \E obj \in Instances : ClassToDict(obj)
    \/ \E data \in GateInputs : DictToClass(data)
    \/ Rebuild

Spec == Init /\ [][Next]_vars

----------------------------------------------------------------------------
(* The codec operations *)

\* values handed to serializeData
Payloads ==
    { PyInt(55),
      Blob("stars", 1000), Blob("stars", 150), Blob("stars", 194), Blob("stars", 195),
      Blob("noise", 300),
      PyList(<<Blob("noise", 200), Blob("stars", 14)>>),
      PyTuple(<<PyInt(5), PyInt(11)>>),
      PyDict(Tagged(<<"foo", "_", "_", "bar">>, EmptyMap)),
      Obj(MOD_APP, "Point", XY, <<>>, "o2"),
      Obj(MOD_APP, "Point", "x" :> Blob("stars", 500), <<>>, "o9"),
      Obj(MOD_BUILTINS, "ValueError", EmptyMap, <<PyInt(1), PyStr(<<"bad">>)>>, "e2"),
      Obj(MOD_BUILTINS, "object", EmptyMap, <<>>, "o1") }

BadMapping == PyDict(Tagged(<<"foo", "_", "_", "bar">>, EmptyMap))

UnknownMapping == PyDict(Tagged(Dotted3("completely", "unknown", "Type"), "state" :> PyDict(EmptyMap)))

ErrorMapping == PyDict(Tagged(Dotted2("builtins", "ValueError"), ARGS_ITEM))

\* values a peer can put on the wire
WireValues ==
    { PyInt(55),
      PyDict("number" :> PyInt(42)),
      BadMapping, UnknownMapping, ErrorMapping,
      PyDict(Tagged(<<"MarshalSerializer">>, EmptyMap)),
      PyDict(Tagged(Dotted2("builtins", "ValueError"), "args" :> PyList(<<BadMapping>>))),
      PyList(<<BadMapping>>),
      PyTuple(<<PyInt(5), UnknownMapping>>),
      PyDict("inner" :> UnknownMapping),
      PyList(<<PyList(<<ErrorMapping>>)>>),
      PyDict("inner" :> PyList(<<PyDict("deep" :> BadMapping)>>)) }

\* call envelopes: target, method, vargs, kwargs
Calls ==
    { <<PyStr(<<"obj1">>), PyStr(<<"multiply">>), PyTuple(<<PyInt(5), PyInt(11)>>), PyDict(EmptyMap)>>,
      <<PyStr(<<"obj1">>), PyStr(<<"multiply">>), PyTuple(<<Blob("stars", 500), PyInt(2)>>),
        PyDict(EmptyMap)>>,
      <<PyStr(<<"obj1">>), PyStr(<<"echo">>), PyTuple(<<Blob("noise", 300)>>),
        PyDict("a" :> PyInt(4))>>,
      <<PyStr(<<"obj1">>), PyStr(<<"move">>), PyTuple(<<Obj(MOD_APP, "Point", XY, <<>>, "o2")>>),
        PyDict(EmptyMap)>> }

\* what the codec can be given (serpent: see Encode)
Encodable(codec, v) == codec = "serpent" => IsLiteral(v)

SerializeData(codec, data, compress) ==
    /\ codec \in serializers
    /\ Encodable(codec, data)
    /\ op' = Op("serializeData", codec, data, compress)
    /\ out' = serializeData(codec, data, compress)
    /\ called' = <<>>
    /\ argout' = dumps_arg(codec, data)
    /\ UNCHANGED <<registry, serializers, regorder, reader, gate0>>

\* deserializeData on the pair the preceding serializeData call returned
DeserializeData ==
    /\ op.name = "serializeData"
    /\ ~IsRaise(out)
    /\ op' = Op("deserializeData", op.codec, op.arg, out.v[2].v)
    /\ out' = deserializeData(op.codec, out.v[1], out.v[2].v)
    /\ called' = LET plain == IF out.v[2].v THEN zlib_decompress(out.v[1]) ELSE out.v[1]
                 IN IF IsRaise(plain) THEN <<>> ELSE loads_calls(op.codec, plain)
    /\ argout' = op'.arg
    /\ UNCHANGED <<registry, serializers, regorder, reader, gate0>>

SerializeCall(codec, call, compress) ==
    /\ codec \in serializers
    /\ Encodable(codec, PyTuple(call))
    /\ op' = Op("serializeCall", codec, PyTuple(call), compress)
    /\ out' = serializeCall(codec, call[1], call[2], call[3], call[4], compress)
    /\ called' = <<>>
    /\ argout' = op'.arg
    /\ UNCHANGED <<registry, serializers, regorder, reader, gate0>>

\* deserializeCall on the pair the preceding serializeCall call returned
DeserializeCall ==
    /\ op.name = "serializeCall"
    /\ ~IsRaise(out)
    /\ op' = Op("deserializeCall", op.codec, op.arg, out.v[2].v)
    /\ out' = deserializeCall(op.codec, out.v[1], out.v[2].v)
    /\ called' = <<>>
    /\ argout' = op'.arg
    /\ UNCHANGED <<registry, serializers, regorder, reader, gate0>>

\* loads on bytes that decode to `value`: op.arg is the decoded value
Loads(codec, value) ==
    /\ codec \in serializers
    /\ Encodable(codec, value)
    /\ ~IsRaise(Encode(codec, value))
    /\ op' = Op("loads", codec, Encode(codec, value).v.val, FALSE)
    /\ out' = loads(codec, Encode(codec, value))
    /\ called' = loads_calls(codec, Encode(codec, value))
    /\ argout' = op'.arg
    /\ UNCHANGED <<registry, serializers, regorder, reader, gate0>>

\* an instance of a dict subclass (collections.OrderedDict)
OrderedDict(f) == [t |-> "odict", v |-> f]

\* values handed to recreate_classes directly
Literals ==
    WireValues \cup
    { None, PyStr(<<"text">>), PyList(<<>>), PyDict(EmptyMap),
      OrderedDict(Tagged(Dotted2("builtins", "ValueError"), ARGS_ITEM)),
      OrderedDict("number" :> PyInt(42)) }

RecreateClasses(literal) ==
    /\ op' = Op("recreate_classes", "", literal, FALSE)
    /\ out' = recreate_classes(literal)
    /\ called' = RecreateCalls(literal)
    /\ argout' = op'.arg
    /\ UNCHANGED <<registry, serializers, regorder, reader, gate0>>

\* values a peer can send where a call envelope is expected: whole envelopes
\* in both wire shapes, and envelopes with fields missing
Envelopes ==
    LET target == PyStr(<<"obj1">>)
        method == PyStr(<<"multiply">>)
        vargs == PyTuple(<<PyInt(5), PyInt(11)>>)
        kwargs == PyDict(EmptyMap)
    IN { PyTuple(<<target, method, vargs, kwargs>>),
         PyDict(("object" :> target) @@ ("method" :> method) @@
                ("params" :> vargs) @@ ("kwargs" :> kwargs)),
         PyTuple(<<target, method, vargs>>),
         PyTuple(<<target>>),
         PyTuple(<<>>),
         PyDict(("object" :> target) @@ ("method" :> method) @@ ("params" :> vargs)),
         PyDict(EmptyMap),
         PyInt(55),
         None }

\* loadsCall on bytes that decode to `value`: op.arg is the decoded value
LoadsCall(codec, value) ==
    /\ codec \in serializers
    /\ ~IsRaise(Encode(codec, value))
    /\ op' = Op("loadsCall", codec, Encode(codec, value).v.val, FALSE)
    /\ out' = loadsCall(codec, Encode(codec, value))
    /\ called' = <<>>
    /\ argout' = op'.arg
    /\ UNCHANGED <<registry, serializers, regorder, reader, gate0>>

NextCodec ==
    \/ \E converter \in Converters : Register("Point", converter)
    \/ Unregister("Point")
    \/ \E codec \in Codecs, data \in Payloads, compress \in BOOLEAN :
            SerializeData(codec, data, compress)
    \/ DeserializeData
    \/ \E codec \in Codecs, call \in Calls, compress \in BOOLEAN :
            SerializeCall(codec, call, compress)
    \/ DeserializeCall
    \/ \E codec \in Codecs, value \in WireValues \cup Payloads : Loads(codec, value)
    \/ \E literal \in Literals : RecreateClasses(literal)
    \/ \E codec \in Codecs, value \in Envelopes : LoadsCall(codec, value)

SpecCodec == Init /\ [][NextCodec]_vars

----------------------------------------------------------------------------
(* Properties of the reconstruction gate and of the converter registry *)

GateCall == op.name = "dict_to_class"

\* the type tag of the mapping the last dict_to_class call was given
GateTag == IF CLASS_KEY \in DOMAIN op.arg.v THEN op.arg.v[CLASS_KEY].v ELSE <<"<unknown>">>

\* C1: dict_to_class raises SecurityError for every mapping whose type tag
\* contains "__", whatever the rest of the tag (an allow-listed prefix included)
\* and whatever the codec registry and the converter registry hold.
C1_DunderTagRejected ==
    (GateCall /\ Contains(GateTag, DUNDER)) => out = Raise("SecurityError")

C1_Witness ==
    /\ GateCall
    /\ GateTag = PFX_BUILTINS \o <<"_", "_", "import", "_", "_">>
    /\ "args" \in DOMAIN op.arg.v
    /\ Len(Live(registry)) > 0
    /\ "json" \in serializers
    /\ out = Raise("SecurityError")

\* the tags the gate is documented to rebuild
RecognizedTag(tag) ==
    \/ tag \in {PFX_CORE \o <<n>> : n \in {"URI", "Proxy", "Daemon"}}
    \/ tag \in {PFX_UTIL \o <<n>> : n \in {"PickleSerializer", "MarshalSerializer",
                                             "JsonSerializer", "SerpentSerializer",
                                             "XmlrpcSerializer"}}
    \/ tag \in {PFX_ERRORS \o <<n>> : n \in DOMAIN errors}
    \/ tag \in {PFX_BUILTINS \o <<n>> : n \in {m \in DOMAIN builtins : builtins[m] = "exception"}}
    \/ tag \in {PFX_EXCEPTIONS \o <<n>> : n \in {m \in DOMAIN builtins : builtins[m] = "exception"}}
    \/ tag \in {<<n>> : n \in all_exceptions}
    \/ tag \in {<<SerializerClass[k]>> : k \in serializers}

\* C2: every tag without "__" that is not a core value type, a codec type, an
\* allow-listed exception type or the class name of a registered codec makes
\* dict_to_class fail with ProtocolError and with no other error.
C2_DefaultDenyIsProtocolError ==
    (GateCall /\ ~Contains(GateTag, DUNDER) /\ ~RecognizedTag(GateTag))
        => out = Raise("ProtocolError")

SameTypeAndArgs(r, e) ==
    /\ r.t = "obj"
    /\ r.v.cls = e.v.cls
    /\ r.v.module = e.v.module
    /\ r.v.args = e.v.args

\* a registered type that obj is an instance of, by the registrations made
ConverterRegisteredFor(obj) == \E i \in 1..Len(regorder) : IsInstance(obj, regorder[i][1])

FirstRegistered(obj) ==
    LET hits == {i \in 1..Len(regorder) : IsInstance(obj, regorder[i][1])}
    IN regorder[CHOOSE i \in hits : \A j \in hits : i <= j][2]

\* C6: after any sequence of register and unregister calls, class_to_dict(obj)
\* is the result of the converter of the first registered entry, in
\* registration order, whose type obj is an instance of (an entry keeps its
\* place when its type is registered again; a base type registered before a
\* subtype wins); generic flattening is used only when no entry matches.
C6_FirstRegisteredConverterWins ==
    op.name = "class_to_dict" =>
        out = IF ConverterRegisteredFor(op.arg)
              THEN CallConverter(FirstRegistered(op.arg), op.arg)
              ELSE GenericToDict(op.arg)

C6_Witness ==
    /\ op.name = "class_to_dict"
    /\ op.arg.v.cls = "Point3D"
    /\ \E i \in 1..Len(registry) : registry[i] = DUMMY
    /\ Len(regorder) = 2
    /\ regorder[1][1] = "Point"
    /\ regorder[2][1] = "Point3D"
    /\ regorder[1][2] # regorder[2][2]
    /\ out = CallConverter(regorder[1][2], op.arg)

\* C7: no sequence of register and unregister calls changes the outcome of
\* dict_to_class for any type tag, and an instance of a custom type that a
\* registered converter flattens is not rebuilt: its tag gives ProtocolError.
C7_RegistrationNeverWidensGate ==
    /\ GateCall => \E i \in 1..Len(GateInputSeq) : GateInputSeq[i] = op.arg.v /\ out = gate0[i]
    /\ (op.name = "rebuild" /\ op.arg.v.module = MOD_APP /\ ConverterRegisteredFor(op.arg))
          => out = Raise("ProtocolError")

C7_Witness ==
    /\ op.name = "rebuild"
    /\ op.arg.v.cls = "Point"
    /\ "Point" \in Keys(registry)
    /\ out = Raise("ProtocolError")

\* the class names of the codec implementation types
CodecClassNames == {SerializerClass[k] : k \in DOMAIN SerializerClass}

\* the registry name of the codec whose instances have that class name
CodecOfClass(name) == CHOOSE k \in DOMAIN SerializerClass : SerializerClass[k] = name

\* the last dict_to_class call was given a tag naming a codec type: the bare
\* class name, or the class name qualified with the module
CodecTagCall ==
    /\ GateCall
    /\ \/ Len(GateTag) = 1 /\ GateTag[1] \in CodecClassNames
       \/ \E n \in CodecClassNames : GateTag = PFX_UTIL \o <<n>>

\* C18 as stated: for a tag naming a codec type, qualified or bare,
\* dict_to_class returns the instance the codec registry holds for that codec,
\* and no instance when the registry does not hold that codec.
C18_CodecTagGivesRegistryInstance ==
    CodecTagCall =>
        LET name == GateTag[Len(GateTag)]
            k == CodecOfClass(name)
        IN IF k \in serializers
           THEN out = Obj(MOD_UTIL, name, EmptyMap, <<>>, k)
           ELSE IsRaise(out)

\* C18 amended: a tag "Pyro4.util.<codec class>" gives a newly created
\* instance of that class, whether or not the registry holds that codec; a
\* bare codec class name gives the registry's own instance when the registry
\* holds that codec, and ProtocolError when it does not.
C18_QualifiedTagGivesNewInstance ==
    CodecTagCall =>
        LET name == GateTag[Len(GateTag)]
            k == CodecOfClass(name)
        IN IF Len(GateTag) > 1
           THEN out = Obj(MOD_UTIL, name, EmptyMap, <<>>, "new")
           ELSE IF k \in serializers
           THEN out = Obj(MOD_UTIL, name, EmptyMap, <<>>, k)
           ELSE out = Raise("ProtocolError")

C18_Witness ==
    /\ GateCall
    /\ GateTag = PFX_UTIL \o <<"SerpentSerializer">>
    /\ "serpent" \notin serializers
    /\ Len(Live(registry)) > 0
    /\ out = Obj(MOD_UTIL, "SerpentSerializer", EmptyMap, <<>>, "new")

----------------------------------------------------------------------------
(* Properties of the codec operations *)

\* the uncompressed encoding the last serializeData / serializeCall call produced
EncodedPayload ==
    IF op.name = "serializeData"
    THEN dumps(op.codec, op.arg)
    ELSE dumpsCall(op.codec, op.arg.v[1], op.arg.v[2], op.arg.v[3], op.arg.v[4])

\* C3: serializeData and serializeCall return the flag true iff compression was
\* requested, the encoded payload is at least 200 bytes long and its compressed
\* form is strictly shorter; then the bytes are the compressed form, and in
\* every other case they are exactly the output of dumps / dumpsCall.
C3_CompressionPolicy ==
    (op.name \in {"serializeData", "serializeCall"} /\ ~IsRaise(out)) =>
        LET encoded == EncodedPayload
            data == out.v[1]
            flag == out.v[2].v
        IN /\ flag <=> (/\ op.flag
                        /\ encoded.v.len >= 200
                        /\ zlib_compress(encoded).v.len < encoded.v.len)
           /\ flag => data = zlib_compress(encoded)
           /\ ~flag => data = encoded

C3_Witness ==
    /\ op.name = "serializeData"
    /\ op.codec = "marshal"
    /\ op.flag
    /\ ~IsRaise(out)
    /\ EncodedPayload.v.len = 200
    /\ out.v[2].v
    /\ out.v[1].v.len < 200

\* C4: for every codec, every value it can encode and either value of
\* compress, deserializeData on the pair serializeData returned gives what
\* loads(dumps(v)) gives.
C4_CompressionRoundTrip ==
    op.name = "deserializeData" => out = loads(op.codec, dumps(op.codec, op.arg))

C4_Witness ==
    /\ op.name = "deserializeData"
    /\ op.codec = "json"
    /\ op.flag
    /\ op.arg = Blob("stars", 1000)
    /\ out = op.arg

IsTagged(v) == v.t = "dict" /\ CLASS_KEY \in DOMAIN v.v

\* C9 as stated: for every concrete codec, when the decoded value is a mapping
\* with the reserved key, loads returns what dict_to_class gives for it.
C9_EveryCodecGates ==
    (op.name = "loads" /\ IsTagged(op.arg)) => out = dict_to_class(op.arg.v)

\* C9 amended: that holds for the marshal, serpent and json codecs; the pickle
\* codec returns what pickle decoded, a tagged mapping included, as it is.
C9_NonPickleCodecsGate ==
    (op.name = "loads" /\ IsTagged(op.arg)) =>
        out = IF op.codec = "pickle" THEN op.arg ELSE dict_to_class(op.arg.v)

C9_Witness ==
    /\ op.name = "loads"
    /\ op.codec = "json"
    /\ op.arg = JsonValue(ErrorMapping)
    /\ out.t = "obj"
    /\ out.v.cls = "ValueError"

RejectedTag(d) ==
    Contains(d.v[CLASS_KEY].v, DUNDER) \/ ~RecognizedTag(d.v[CLASS_KEY].v)

RECURSIVE ContainsTagged(_, _)
\* a tagged mapping (rejectedOnly: one whose tag has "__" or is not allow-listed)
\* lies inside v, as an element of a sequence or as a value of an untagged
\* mapping, at any depth
ContainsTagged(v, rejectedOnly) ==
    LET Hit(x) == (IsTagged(x) /\ (rejectedOnly => RejectedTag(x))) \/ ContainsTagged(x, rejectedOnly)
    IN CASE v.t \in {"tuple", "list"} -> \E i \in 1..Len(v.v) : Hit(v.v[i])
         [] v.t = "dict" /\ ~IsTagged(v) -> \E k \in DOMAIN v.v : Hit(v.v[k])
         [] OTHER -> FALSE

\* C10 as stated: a tagged mapping nested at any depth in the decoded value goes
\* through dict_to_class too, so a nested tag with "__" or outside the allow-list
\* makes the whole loads call fail.
C10_NestedTagFailsLoads ==
    (op.name = "loads" /\ op.codec # "pickle" /\ ContainsTagged(op.arg, TRUE))
        => IsRaise(out)

\* C10 amended: the gate is applied to the decoded value itself only; a tagged
\* mapping nested in a sequence or in an untagged mapping is not passed through
\* dict_to_class: loads returns the decoded value with it left as plain data.
C10_NestedTagLeftAsData ==
    (op.name = "loads" /\ ContainsTagged(op.arg, FALSE)) => out = op.arg

C10_Witness ==
    /\ op.name = "loads"
    /\ op.codec = "marshal"
    /\ op.arg = PyDict("inner" :> PyList(<<PyDict("deep" :> BadMapping)>>))
    /\ out = op.arg

\* C11: recreate_classes calls dict_to_class exactly when its argument is a
\* plain dict holding the "__class__" key, and then once, with that dict; for
\* every other argument (not a mapping, a mapping without the key, an instance
\* of a dict subclass) it makes no dict_to_class call and returns the argument
\* itself, unmodified.
C11_RecreateClassesFrame ==
    op.name = "recreate_classes" =>
        IF op.arg.t = "dict" /\ CLASS_KEY \in DOMAIN op.arg.v
        THEN called = <<op.arg.v>> /\ out = dict_to_class(op.arg.v)
        ELSE called = <<>> /\ out = op.arg /\ argout = op.arg

C11_Witness ==
    /\ op.name = "recreate_classes"
    /\ op.arg.t = "dict"
    /\ DOMAIN op.arg.v = {"inner"}
    /\ op.arg.v["inner"].t = "dict"
    /\ CLASS_KEY \in DOMAIN op.arg.v["inner"].v
    /\ called = <<>>
    /\ out = op.arg

\* the decoded value has the four fields of an envelope, in the shape the
\* codec's dumpsCall writes: a sequence of four, or for json the four names
CompleteEnvelope(codec, v) ==
    IF codec = "json"
    THEN v.t = "dict" /\ {"object", "method", "params", "kwargs"} \subseteq DOMAIN v.v
    ELSE v.t \in {"tuple", "list"} /\ Len(v.v) = 4

\* C12: for every codec, loadsCall of bytes whose decoded envelope is not a
\* complete (target, method, args, kwargs) envelope fails with a decode error;
\* it returns nothing, in particular no result with fewer than four fields.
C12_MalformedEnvelopeRejected ==
    (op.name = "loadsCall" /\ ~CompleteEnvelope(op.codec, op.arg)) =>
        out = Raise("DecodeError")

----------------------------------------------------------------------------
(* Flattening on its own and through the serializers *)

FlattenKeys == {"Exception", "object"}

\* values handed to class_to_dict and to serializeData
FlattenPayloads == Instances \cup {PyInt(55), PyTuple(<<PyInt(5), PyInt(11)>>)}

NextFlatten ==
    \/ \E clazz \in FlattenKeys, converter \in Converters : Register(clazz, converter)
    \/ \E clazz \in FlattenKeys : Unregister(clazz)
    \/ \E obj \in Instances : ClassToDict(obj)
    \/ \E codec \in Codecs, data \in FlattenPayloads, compress \in BOOLEAN :
            SerializeData(codec, data, compress)

SpecFlatten == Init /\ [][NextFlatten]_vars

\* the last call was one that flattens its argument
Flattens(o) ==
    /\ o.arg.t = "obj"
    /\ \/ o.name = "class_to_dict"
       \/ o.name = "serializeData" /\ o.codec \in {"marshal", "json"}

\* C13 as stated: class_to_dict, and dumps and serializeData through it, leave
\* the value being encoded unchanged, all its attributes included.
C13_FlatteningLeavesInputUnchanged ==
    op.name \in {"class_to_dict", "serializeData"} => argout = op.arg

\* C13 amended: class_to_dict, dumps and serializeData change neither registry,
\* and leave the value being encoded unchanged but for one attribute: when
\* the value is flattened, no registered converter matches it and it has a
\* _pyroDaemon attribute, that attribute is set to None on the value itself.
C13_FlatteningOnlyClearsDaemon ==
    [][op'.name \in {"class_to_dict", "serializeData"} =>
          /\ registry' = registry
          /\ serializers' = serializers
          /\ argout' =
                IF /\ Flattens(op')
                   /\ ~ConverterRegisteredFor(op'.arg)
                   /\ "_pyroDaemon" \in DOMAIN op'.arg.v.attrs
                THEN [op'.arg EXCEPT !.v.attrs =
                         [k \in DOMAIN @ |-> IF k = "_pyroDaemon" THEN None ELSE @[k]]]
                ELSE op'.arg]_vars

C13_Witness ==
    /\ Len(Live(registry)) > 0
    /\ op.name = "serializeData"
    /\ op.codec = "marshal"
    /\ op.arg.t = "obj"
    /\ "_pyroDaemon" \in DOMAIN op.arg.v.attrs
    /\ op.arg.v.attrs["_pyroDaemon"] # None
    /\ argout.v.attrs["_pyroDaemon"] = None
    /\ ~IsRaise(out)

\* no registered converter matches the value, it is not an exception, it has
\* no __getstate__ giving a dict, no __dict__ and no __slots__
Unflattenable(v) ==
    /\ v.t = "obj"
    /\ ~ConverterRegisteredFor(v)
    /\ "Exception" \notin ClassTable[v.v.cls].mro
    /\ ClassTable[v.v.cls].getstate # "dict"
    /\ ~ClassTable[v.v.cls].hasdict
    /\ ClassTable[v.v.cls].slots = <<>>

\* the last call flattened a value that cannot be flattened
FlattenedUnflattenable == Flattens(op) /\ Unflattenable(op.arg)

\* C14 as stated: class_to_dict of such a value fails with SerializationError,
\* and so does dumps (serializeData) of a codec that falls back to flattening.
C14_UnflattenableIsSerializationError ==
    FlattenedUnflattenable => out = Raise("SerializationError")

\* C14 amended: the failure is a ProtocolError, from class_to_dict and from
\* dumps (serializeData) of the marshal and json codecs alike.
C14_UnflattenableIsProtocolError ==
    FlattenedUnflattenable => out = Raise("ProtocolError")

C14_Witness ==
    /\ op.name = "serializeData"
    /\ op.codec = "json"
    /\ op.arg.t = "obj"
    /\ op.arg.v.cls = "object"
    /\ Len(Live(registry)) > 0
    /\ out = Raise("ProtocolError")

\* C17: for a value no registered converter matches, class_to_dict gives
\* (1) for an exception instance, exactly {"args": its args, "__class__": its
\* qualified type name}, whatever __getstate__ or attributes it has; else
\* (2) what its __getstate__ returns, unchanged and untagged, when that is a
\* dict; else (3) a copy of its __dict__ plus the tag, also when __getstate__
\* returns something that is not a dict; else (4) its slots plus the tag.
\* (The attributes are those the value has once _pyroDaemon has been cleared.)
C17_FlatteningPriority ==
    (op.name = "class_to_dict" /\ ~ConverterRegisteredFor(op.arg)) =>
        LET c == ClassTable[op.arg.v.cls]
            tag == PyStr(c.module \o <<".", op.arg.v.cls>>)
            attrs == argout.v.attrs
            tagged(names) == [k \in names \cup {CLASS_KEY} |-> IF k = CLASS_KEY THEN tag ELSE attrs[k]]
        IN IF "Exception" \in c.mro
           THEN /\ out.t = "dict"
                /\ DOMAIN out.v = {"args", CLASS_KEY}
                /\ out.v["args"] = PyTuple(op.arg.v.args)
                /\ out.v[CLASS_KEY] = tag
           ELSE IF c.getstate = "dict"
           THEN out = GetState(argout) /\ CLASS_KEY \notin DOMAIN out.v
           ELSE IF c.hasdict
           THEN out = PyDict(tagged(DOMAIN attrs))
           ELSE IF c.slots # <<>>
           THEN out = PyDict(tagged({c.slots[i] : i \in 1..Len(c.slots)}))
           ELSE IsRaise(out)

C17_Witness ==
    /\ op.name = "class_to_dict"
    /\ op.arg.v.cls = "OddState"
    /\ "Exception" \in Keys(registry)
    /\ out.t = "dict"
    /\ DOMAIN out.v = {"x", "y", CLASS_KEY}

----------------------------------------------------------------------------
(* resolveDottedAttribute.  Objects live on a heap; an attribute name is a  *)
(* str, and an object has the attributes listed for it.                     *)

PyRef(id) == [t |-> "ref", v |-> id]

\* the attributes of each object: <<name, the object it is bound to>>
Heap ==
    [id \in {"thing", "thing.dictionary", "thing.multiply", "thing._pyroDaemon",
             "thing.__dict__", "MyThing", "dict", "dict.update", "function"} |->
        CASE id = "thing" ->
                { <<<<"dictionary">>, "thing.dictionary">>,
                  <<<<"multiply">>, "thing.multiply">>,
                  <<<<"_", "pyroDaemon">>, "thing._pyroDaemon">>,
                  <<<<"_", "_", "dict", "_", "_">>, "thing.__dict__">>,
                  <<<<"_", "_", "class", "_", "_">>, "MyThing">> }
          [] id = "thing.dictionary" ->
                { <<<<"update">>, "dict.update">>,
                  <<<<"_", "_", "class", "_", "_">>, "dict">> }
          [] id = "thing.multiply" ->
                { <<<<"_", "_", "self", "_", "_">>, "thing">>,
                  <<<<"im", "_", "self">>, "thing">>,
                  <<<<"_", "_", "class", "_", "_">>, "function">> }
          [] id = "MyThing" ->
                { <<<<"multiply">>, "function">> }
          [] OTHER -> {} ]

\* getattr(obj, name): a reference, or AttributeError
getattr(obj, name) ==
    IF \E a \in Heap[obj.v] : a[1] = name
    THEN PyRef((CHOOSE a \in Heap[obj.v] : a[1] = name)[2])
    ELSE Raise("AttributeError")

RECURSIVE ResolveChain(_, _)
\* lines 413-418: the loop over the names of the chain
ResolveChain(obj, attrs) ==
    IF attrs = <<>> THEN obj
    ELSE IF StartsWith(Head(attrs), <<"_">>) THEN Raise("AttributeError")
    ELSE LET next == getattr(obj, Head(attrs))
         IN IF IsRaise(next) THEN next ELSE ResolveChain(next, Tail(attrs))

\* lines 404-420
resolveDottedAttribute(obj, attr, allowDotted) ==
    IF allowDotted
    THEN ResolveChain(obj, Split(attr, ".", -1))
    ELSE getattr(obj, attr)

\* the names clients ask for
AttrNames ==
    { <<"multiply">>, <<"dictionary">>, <<"nothing">>, <<>>,
      <<"dictionary", ".", "update">>, <<"dictionary", ".", "nothing">>,
      <<"dictionary", ".">>, <<".", "multiply">>, <<"dictionary", ".", ".", "update">>,
      <<"_", "pyroDaemon">>, <<"_", "_", "dict", "_", "_">>, <<"_", "_", "class", "_", "_">>,
      <<"_", "nothing">>,
      <<"dictionary", ".", "_", "_", "class", "_", "_">>,
      <<"multiply", ".", "_", "_", "self", "_", "_">>,
      <<"multiply", ".", "im", "_", "self">>,
      <<"multiply", ".", "im", "_", "self", ".", "dictionary">>,
      <<"multiply", ".", "im", "_", "self", ".", "_", "pyroDaemon">>,
      <<"_", "_", "class", "_", "_", ".", "multiply">>,
      <<"nothing", ".", "_", "x">> }

ResolveDottedAttribute(obj, attr, allowDotted) ==
    /\ op' = Op("resolveDottedAttribute", "", PyTuple(<<PyRef(obj), PyStr(attr)>>), allowDotted)
    /\ out' = resolveDottedAttribute(PyRef(obj), attr, allowDotted)
    /\ called' = <<>>
    /\ argout' = op'.arg
    /\ UNCHANGED <<registry, serializers, regorder, reader, gate0>>

----------------------------------------------------------------------------
(* Tracebacks.  A text is a sequence of tokens in which every newline is a  *)
(* token of its own; a report is a sequence of texts.                       *)

NL == "\n"

DASHES == "----------------------------------------------------"

\* an exception instance; remote is its _pyroTraceback attribute (None: not set)
Exc(cls, msg, remote) == [t |-> "exc", v |-> [cls |-> cls, msg |-> msg, remote |-> remote]]

\* an exception type
ExcType(cls) == [t |-> "type", v |-> cls]

\* a traceback object: its frames, outermost first
Traceback(frames) == [t |-> "traceback", v |-> frames]

\* sys.exc_info() when no exception is being handled
NoExcInfo == <<None, None, None>>

IsNone(v) == v.t = "none"

RECURSIVE Join(_)
\* "".join(texts)
Join(texts) == IF texts = <<>> THEN <<>> ELSE Head(texts) \o Join(Tail(texts))

RECURSIVE FormatTb(_)
\* traceback.format_tb: one text of two lines per frame
FormatTb(frames) ==
    IF frames = <<>> THEN <<>>
    ELSE LET f == Head(frames)
         IN << <<"  File \"", f.file, "\", line ", f.lineno, ", in ", f.name, NL,
                 "    ", f.code, NL>> >> \o FormatTb(Tail(frames))

\* traceback.format_exception(etype, value, tb): the type shown is type(value)
format_exception(ex_type, ex_value, ex_tb) ==
    (IF IsNone(ex_tb) THEN <<>>
     ELSE << <<"Traceback (most recent call last):", NL>> >> \o FormatTb(ex_tb.v)) \o
    (IF IsNone(ex_value) THEN << <<"NoneType: None", NL>> >>
     ELSE << <<ex_value.v.cls, ": ", ex_value.v.msg, NL>> >>)

\* lines 74 and 106: " EXCEPTION %s: %s\n" % (ex_type, ex_value)
ExceptionLine(ex_type, ex_value) ==
    <<" EXCEPTION ">> \o
    (IF IsNone(ex_type) THEN <<"None">>
     ELSE IF ex_type.t = "type" THEN <<"<class '", ex_type.v, "'>">>
     ELSE <<ex_type.v.msg>>) \o
    <<": ", IF IsNone(ex_value) THEN "None" ELSE ex_value.v.msg, NL>>

RECURSIVE LocalLines(_, _)
\* lines 95-102: the locals of a frame, sorted by name, and under `self` the
\* attributes of the instance
LocalLines(f, locals) ==
    IF locals = <<>> THEN <<>>
    ELSE LET l == Head(locals)
         IN << <<"    ", l[1], " = ", l[2], NL>> >> \o
            (IF l[1] = "self"
             THEN [i \in 1..Len(f.selfvars) |->
                      <<"        self.", f.selfvars[i][1], " = ", f.selfvars[i][2], NL>>]
             ELSE <<>>) \o
            LocalLines(f, Tail(locals))

\* lines 78-102: the lines of one frame
FrameLines(f, skipLocals) ==
    << <<DASHES, NL>>,
       <<"File \"", f.file, "\", line ", f.lineno, ", in ">> \o
         (IF f.self # "" THEN <<f.self, ".", f.name>> ELSE <<f.name>>) \o <<NL>>,
       <<"Source code:", NL>>,
       <<"    ", f.code, NL>> >> \o
    (IF skipLocals THEN <<>> ELSE << <<"Local values:", NL>> >> \o LocalLines(f, f.locals))

\* line 101: vars(value) raises TypeError for an instance without __dict__
FrameFails(f, skipLocals) == ~skipLocals /\ f.self # "" /\ ~f.hasvars

\* lines 72-113: the detailed report, or the report of the failure to build it
DetailedTraceback(ex_type, ex_value, ex_tb) ==
    LET frames == IF IsNone(ex_tb) THEN <<>> ELSE ex_tb.v
        failing == {i \in 1..Len(frames) : FrameFails(frames[i], i = 1)}
    IN IF failing = {}
       THEN << <<DASHES, NL>>,
               ExceptionLine(ex_type, ex_value),
               <<" Extended stacktrace follows (most recent call last)", NL>> >> \o
            Join([i \in 1..Len(frames) |-> FrameLines(frames[i], i = 1)]) \o
            << <<DASHES, NL>>, ExceptionLine(ex_type, ex_value), <<DASHES, NL>> >>
       ELSE LET i == CHOOSE i \in failing : \A j \in failing : i <= j
                rest == Traceback(SubSeq(frames, i, Len(frames)))
            IN << <<DASHES, NL, "Error building extended traceback!!! :", NL>>,
                  <<"Traceback (most recent call last):", NL,
                    "TypeError: vars() argument must have __dict__ attribute", NL, DASHES, NL>>,
                  <<"Original Exception follows:", NL>>,
                  Join(format_exception(ex_type, ex_value, rest)) >>

\* a report as the list of str that is returned
Report(texts) == PyList([i \in 1..Len(texts) |-> PyStr(texts[i])])

\* lines 52-116; exc_info is what sys.exc_info() returns
formatTraceback(ex_type, ex_value, ex_tb, exc_info, detailed) ==
    IF ~IsNone(ex_type) /\ IsNone(ex_value) /\ IsNone(ex_tb) /\ ex_type.t # "type"
    THEN Raise("TypeError")
    ELSE LET e == IF IsNone(ex_type) /\ IsNone(ex_tb) THEN exc_info
                  ELSE <<ex_type, ex_value, ex_tb>>
         IN IF detailed THEN Report(DetailedTraceback(e[1], e[2], e[3]))
            ELSE Report(format_exception(e[1], e[2], e[3]))

REMOTE_BEGIN == <<" +--- This exception occured remotely (Pyro) - Remote traceback:">>

REMOTE_PREFIX == <<NL, " | ">>

REMOTE_END == <<NL, " +--- End of remote traceback", NL>>

RECURSIVE RemoteLinesUnsplit(_)
RemoteLinesUnsplit(remote_tb_lines) ==
    IF remote_tb_lines = <<>> THEN <<>>
    ELSE <<REMOTE_PREFIX, Head(remote_tb_lines).v>> \o RemoteLinesUnsplit(Tail(remote_tb_lines))

FormatRemoteWithoutSplit(remote_tb_lines) ==
    <<REMOTE_BEGIN>> \o RemoteLinesUnsplit(remote_tb_lines) \o <<REMOTE_END>>

RECURSIVE RemoteLines(_)
\* lines 22-28
RemoteLines(remote_tb_lines) ==
    IF remote_tb_lines = <<>> THEN <<>>
    ELSE LET text == Head(remote_tb_lines).v
             line == IF Len(text) > 0 /\ text[Len(text)] = NL
                     THEN SubSeq(text, 1, Len(text) - 1) ELSE text
             lines == Split(line, NL, -1)
         IN Join([i \in 1..Len(lines) |-> <<REMOTE_PREFIX, lines[i]>>]) \o
            RemoteLines(Tail(remote_tb_lines))

\* lines 20-30
formatRemoteTraceback(remote_tb_lines) ==
    <<REMOTE_BEGIN>> \o RemoteLines(remote_tb_lines) \o <<REMOTE_END>>

\* lines 15-49
getPyroTraceback(ex_type, ex_value, ex_tb, exc_info, detailed) ==
    IF ~IsNone(ex_type) /\ IsNone(ex_value) /\ IsNone(ex_tb) /\ ex_type.t # "type"
    THEN Raise("TypeError")
    ELSE LET e == IF IsNone(ex_type) /\ IsNone(ex_tb) THEN exc_info
                  ELSE <<ex_type, ex_value, ex_tb>>
             remote_tb == IF e[2].t = "exc" THEN e[2].v.remote ELSE None
             local_tb == formatTraceback(e[1], e[2], e[3], exc_info, detailed)
         IN IF IsRaise(local_tb) THEN local_tb
            ELSE IF remote_tb.t = "list" /\ Len(remote_tb.v) > 0
            THEN PyList(local_tb.v \o Report(formatRemoteTraceback(remote_tb.v)).v)
            ELSE local_tb

\* the frames of the client's call and of the proxy's method
ClientFrame ==
    [file |-> "test_server.py", lineno |-> "245", name |-> "testException",
     code |-> "p.divide(1,0)", self |-> "ServerTestsThreadNoTimeout",
     locals |-> << <<"p", "<Proxy>">>, <<"self", "<ServerTests>">> >>,
     selfvars |-> << <<"objectUri", "<URI>">> >>, hasvars |-> TRUE]

ProxyFrame ==
    [file |-> "core.py", lineno |-> "160", name |-> "__call__",
     code |-> "return self.__send(self.__name, args, kwargs)", self |-> "_RemoteMethod",
     locals |-> << <<"args", "(1, 0)">>, <<"self", "<_RemoteMethod>">> >>,
     selfvars |-> << <<"_RemoteMethod__name", "'divide'">> >>, hasvars |-> TRUE]

FunctionFrame ==
    [file |-> "core.py", lineno |-> "40", name |-> "check",
     code |-> "raise data", self |-> "",
     locals |-> << <<"data", "ZeroDivisionError()">> >>,
     selfvars |-> <<>>, hasvars |-> FALSE]

SlotsFrame ==
    [file |-> "core.py", lineno |-> "77", name |-> "send",
     code |-> "raise data", self |-> "Compact",
     locals |-> << <<"self", "<Compact>">> >>,
     selfvars |-> <<>>, hasvars |-> FALSE]

Tracebacks ==
    { Traceback(<<ClientFrame>>),
      Traceback(<<ClientFrame, ProxyFrame, FunctionFrame>>),
      Traceback(<<ClientFrame, SlotsFrame, FunctionFrame>>) }

\* remote traceback fragments as the receiving side attaches them
Fragments ==
    { None,
      PyList(<<>>),
      PyList(<<PyStr(<<"Traceback (most recent call last):", NL>>),
               PyStr(<<"ZeroDivisionError: division by zero", NL>>)>>),
      PyList(<<PyStr(<<"  File core.py, line 7, in divide", NL, "    return x//y", NL>>),
               PyStr(<<"ZeroDivisionError: division by zero">>)>>),
      PyList(<<PyStr(<<>>), PyStr(<<NL>>), PyStr(<<"a", NL, NL>>)>>) }

ExcValues == {Exc("ZeroDivisionError", "division by zero", f) : f \in Fragments}

\* the exception being handled when the call is made, if any
ExcInfos ==
    { NoExcInfo,
      <<ExcType("KeyError"),
        Exc("KeyError", "'x'", PyList(<<PyStr(<<"KeyError: 'x'", NL>>)>>)),
        Traceback(<<ClientFrame>>)>> }

GetPyroTraceback(ex_type, ex_value, ex_tb, exc_info, detailed) ==
    /\ op' = Op("getPyroTraceback", "",
                PyTuple(<<ex_type, ex_value, ex_tb, PyTuple(exc_info)>>), detailed)
    /\ out' = getPyroTraceback(ex_type, ex_value, ex_tb, exc_info, detailed)
    /\ called' = <<>>
    /\ argout' = op'.arg
    /\ UNCHANGED <<registry, serializers, regorder, reader, gate0>>

NextUtil ==
    \/ \E obj \in {"thing", "thing.dictionary"}, attr \in AttrNames, allowDotted \in BOOLEAN :
            ResolveDottedAttribute(obj, attr, allowDotted)
    \/ \E ex_value \in ExcValues \cup {None}, ex_tb \in Tracebacks \cup {None},
          exc_info \in ExcInfos, detailed \in BOOLEAN :
            \E ex_type \in {None, ExcType("ZeroDivisionError"), ex_value} :
                GetPyroTraceback(ex_type, ex_value, ex_tb, exc_info, detailed)

SpecUtil == Init /\ [][NextUtil]_vars

----------------------------------------------------------------------------
(* Properties of resolveDottedAttribute and of getPyroTraceback *)

ResolveCall == op.name = "resolveDottedAttribute"

\* a name of the dotted chain starts with "_": at the start, or after a dot
PrivateInChain(attr) ==
    \E i \in 1..Len(attr) : attr[i] = "_" /\ (i = 1 \/ attr[i - 1] = ".")

\* C15: resolveDottedAttribute raises AttributeError whenever a name in the
\* requested chain starts with "_", with allowDotted true and with allowDotted
\* false; and with allowDotted false the result is the attribute of obj with
\* exactly the requested name, or AttributeError: never an attribute of an
\* attribute.
C15_PrivateNamesRejected ==
    ResolveCall =>
        LET obj == op.arg.v[1]
            attr == op.arg.v[2].v
        IN /\ PrivateInChain(attr) => out = Raise("AttributeError")
           /\ ~op.flag =>
                \/ out = Raise("AttributeError")
                \/ \E a \in Heap[obj.v] : a[1] = attr /\ out = PyRef(a[2])

TracebackCall == op.name = "getPyroTraceback" /\ ~IsRaise(out)

\* the exception value the report is about: the one supplied, or the one
\* being handled when neither a type nor a traceback is supplied
ReportedValue ==
    IF IsNone(op.arg.v[1]) /\ IsNone(op.arg.v[3]) THEN op.arg.v[4].v[2] ELSE op.arg.v[2]

\* its remote traceback fragment
Fragment == IF ReportedValue.t = "exc" THEN ReportedValue.v.remote ELSE None

HasFragment == Fragment.t = "list" /\ Len(Fragment.v) > 0

\* the local report of the same call
LocalReport ==
    formatTraceback(op.arg.v[1], op.arg.v[2], op.arg.v[3], op.arg.v[4].v, op.flag).v

RECURSIVE JoinLines(_)
\* the texts as lines of one text
JoinLines(texts) ==
    IF Len(texts) = 0 THEN <<>>
    ELSE IF Len(texts) = 1 THEN texts[1]
    ELSE texts[1] \o <<NL>> \o JoinLines(Tail(texts))

\* a text without its final newline
Chomp(text) ==
    IF Len(text) > 0 /\ text[Len(text)] = NL THEN SubSeq(text, 1, Len(text) - 1) ELSE text

\* C16: getPyroTraceback returns the local report first; if and only if the
\* exception value carries a non-empty remote fragment, one remote section
\* follows it: the begin marker, then every remote line in the original order,
\* each a text of its own preceded by the continuation prefix, then the end
\* marker.  With no fragment or an empty one the result is the local report.
C16_RemoteSectionAfterLocalReport ==
    TracebackCall =>
        LET n == Len(LocalReport)
            r == SubSeq(out.v, n + 1, Len(out.v))
            k == (Len(r) - 2) \div 2
            lines == [j \in 1..k |-> r[2 * j + 1].v]
        IN /\ Len(out.v) >= n
           /\ SubSeq(out.v, 1, n) = LocalReport
           /\ IF HasFragment
              THEN /\ Len(r) >= 4
                   /\ Len(r) = 2 * k + 2
                   /\ r[1] = PyStr(REMOTE_BEGIN)
                   /\ r[Len(r)] = PyStr(REMOTE_END)
                   /\ \A j \in 1..k : r[2 * j] = PyStr(REMOTE_PREFIX)
                   /\ \A j \in 1..k : \A i \in 1..Len(lines[j]) : lines[j][i] # NL
                   /\ JoinLines(lines) =
                        JoinLines([i \in 1..Len(Fragment.v) |-> Chomp(Fragment.v[i].v)])
              ELSE r = <<>>

C16_Witness ==
    /\ TracebackCall
    /\ op.flag
    /\ HasFragment
    /\ Len(Fragment.v) = 2
    /\ Len(Fragment.v[1].v) = 4
    /\ op.arg.v[3].t = "traceback"
    /\ Len(op.arg.v[3].v) = 3
    /\ out.v[Len(out.v)] = PyStr(REMOTE_END)
    /\ Len(out.v) = Len(LocalReport) + 8

----------------------------------------------------------------------------
(* class_to_dict in one thread while another thread registers and          *)
(* unregisters.  The interpreter switches threads between bytecodes: the   *)
(* reader's steps are the creation of the dict iterator, each next() on    *)
(* it, and the subscript registry[clazz]; a register or unregister call is *)
(* one dict operation.                                                     *)

LookupInstances ==
    { Obj(MOD_APP, "Point3D", XY @@ ("z" :> PyInt(3)), <<>>, "o3"),
      Obj(MOD_BUILTINS, "ValueError", EmptyMap, <<PyInt(1), PyStr(<<"bad">>)>>, "e2") }

\* line 189: iter(registry), which remembers the number of entries in use
StartLookup(obj) ==
    /\ reader.pc \in {"idle", "done"}
    /\ reader' = [pc |-> "iter", obj |-> obj, pos |-> 0, used |-> Len(Live(registry)),
                  clazz |-> "", cands |-> {ClassToDictOn(registry, obj)}, result |-> None]
    /\ UNCHANGED <<registry, serializers, op, out, regorder, gate0, called, argout>>

\* lines 189-190 and 192-219: next() on the iterator, then the isinstance test,
\* or the generic flattening once the iterator is exhausted
IterNext ==
    /\ reader.pc = "iter"
    /\ LET rest == {i \in (reader.pos + 1)..Len(registry) : registry[i] # DUMMY}
           i == CHOOSE i \in rest : \A j \in rest : i <= j
       IN reader' =
            IF Len(Live(registry)) # reader.used
            THEN [reader EXCEPT !.pc = "done", !.result = Raise("RuntimeError")]
            ELSE IF rest = {}
            THEN [reader EXCEPT !.pc = "done", !.result = GenericToDict(reader.obj)]
            ELSE IF IsInstance(reader.obj, registry[i].key)
            THEN [reader EXCEPT !.pc = "fetch", !.pos = i, !.clazz = registry[i].key]
            ELSE [reader EXCEPT !.pos = i]
    /\ UNCHANGED <<registry, serializers, op, out, regorder, gate0, called, argout>>

\* line 191: registry[clazz](obj)
Fetch ==
    /\ reader.pc = "fetch"
    /\ reader' =
          IF reader.clazz \in Keys(registry)
          THEN [reader EXCEPT !.pc = "done",
                              !.result = CallConverter(registry[IndexOf(registry, reader.clazz)].val,
                                                       reader.obj)]
          ELSE [reader EXCEPT !.pc = "done", !.result = Raise("KeyError")]
    /\ UNCHANGED <<registry, serializers, op, out, regorder, gate0, called, argout>>

LookupKeys == {"Point3D", "Exception"}

NextConc ==
    \/ \E clazz \in LookupKeys, converter \in Converters : Register(clazz, converter)
    \/ \E clazz \in LookupKeys : Unregister(clazz)
    \/ \E obj \in LookupInstances : StartLookup(obj)
    \/ IterNext
    \/ Fetch

SpecConc == Init /\ [][NextConc]_vars

\* C8: a class_to_dict lookup that runs while another thread registers or
\* unregisters returns the result it would give against a registry that
\* existed during the lookup (before or after each mutation); it never fails
\* because a matched entry was removed before its converter was fetched or
\* because the registry changed during the scan.
C8_LookupSeesWholeRegistry ==
    reader.pc = "done" => reader.result \in reader.cands

====
